---- MODULE Spec2Model ----
(***************************************************************************)
(* Model of the dexsearch command of config/commands.js (lines 606-802).   *)
(* One invocation is modelled: the token classification loop (618-700),    *)
(* the empty-query check (702), the evaluation loop (704-784) and the      *)
(* formatting of the reply (786-801).  The query is read token by token;   *)
(* the dataset (Tools.data) is a small fixed table.                        *)
(* Spec runs one invocation step by step; SpecQuery runs the same handler  *)
(* to completion on a whole token list, twice, the second time with two    *)
(* tokens exchanged; SpecLearn is the learn command (lines 808-866).       *)
(* SpecEffect is the effectiveness command (lines 906-948) and SpecLeague  *)
(* the league commands (lines 321-560).                                    *)
(***************************************************************************)
EXTENDS Integers, Sequences, FiniteSets, TLC

\* ------------------------------------------------------------------ bounds
\* Largest number of comma-separated tokens in a query.
MaxTokens == 5

\* ------------------------------------------------------- program constants
\* var output = 10  (line 616)
output == 10

\* var allTiers (line 612); var allColours (line 613)
allTiers == {"uber", "ou", "uu", "ru", "nu", "lc", "cap", "bl", "bl2", "nfe", "limbo"}
allColours == {"green", "red", "blue", "white", "brown", "yellow", "purple", "pink", "gray", "black"}

\* ------------------------------------------------------------ the dataset
\* Tools.data.Movedex / Abilities / TypeChart: id -> display name.
\* "mimic" is an id the two tables share: a name that is a move and an
\* ability at once.
Movedex == [tackle |-> "Tackle", ember |-> "Ember", mimic |-> "Mimic"]
Abilitydex == [blaze |-> "Blaze", levitate |-> "Levitate", torrent |-> "Torrent",
               mimic |-> "Mimic"]
TypeChart == {"Fire", "Flying", "Water", "Ground"}

\* Tools.data.Pokedex entries (the fields dexsearch reads), keyed by id.
\* abilities is the sequence of the values of the species' ability slots.
\* learnset / incompatible are what the legality engine knows of the species.
Mon(sp, ty, ti, co, ab, g, ls, inc) ==
    [species |-> sp, types |-> ty, tier |-> ti, color |-> co, abilities |-> ab,
     gen |-> g, learnset |-> ls, incompatible |-> inc]

Pokedex ==
    [a  |-> Mon("A", <<"Fire">>, "OU", "Red", <<"Blaze">>, 1, {"Tackle", "Ember"}, FALSE),
     b  |-> Mon("B", <<"Fire">>, "UU", "Red", <<"Blaze">>, 1, {"Ember"}, FALSE),
     c  |-> Mon("C", <<"Water">>, "OU", "Blue", <<"Torrent">>, 1, {"Tackle"}, FALSE),
     d  |-> Mon("D", <<"Fire", "Flying">>, "OU", "Red", <<"Blaze", "Levitate">>, 3, {"Tackle", "Ember"}, FALSE),
     e  |-> Mon("E", <<"Flying", "Fire">>, "UU", "Brown", <<"Levitate", "Levitate">>, 3, {"Tackle", "Ember"}, TRUE),
     f  |-> Mon("F", <<"Flying">>, "CAP", "Red", <<"Levitate">>, 3, {"Tackle"}, FALSE),
     g  |-> Mon("G", <<"Fire">>, "Illegal", "Red", <<"Blaze">>, 1, {"Tackle", "Ember"}, FALSE),
     p1 |-> Mon("P1", <<"Fire">>, "OU", "Red", <<"Blaze">>, 1, {"Ember"}, FALSE),
     p2 |-> Mon("P2", <<"Fire">>, "OU", "Red", <<"Blaze">>, 1, {"Ember"}, FALSE),
     p3 |-> Mon("P3", <<"Fire">>, "OU", "Red", <<"Blaze">>, 1, {"Ember"}, FALSE),
     p4 |-> Mon("P4", <<"Fire">>, "OU", "Red", <<"Blaze">>, 1, {"Ember"}, FALSE),
     p5 |-> Mon("P5", <<"Fire">>, "OU", "Red", <<"Blaze">>, 1, {"Ember"}, FALSE),
     p6 |-> Mon("P6", <<"Fire">>, "OU", "Red", <<"Blaze">>, 1, {"Ember"}, FALSE),
     p7 |-> Mon("P7", <<"Fire">>, "OU", "Red", <<"Blaze">>, 1, {"Ember"}, FALSE),
     p8 |-> Mon("P8", <<"Fire">>, "OU", "Red", <<"Blaze">>, 1, {"Ember"}, FALSE)]

\* The catalogs an invocation may run against (the key order of the Pokedex).
CatalogExample == <<"a", "b", "c">>
CatalogMixed == <<"a", "b", "c", "d", "e", "f", "g">>
CatalogMany == <<"a", "b", "d", "p1", "p2", "p3", "p4", "p5", "p6", "p7", "p8", "c", "f", "g">>
Catalogs == {CatalogExample, CatalogMixed, CatalogMany}

\* ---------------------------------------------------------------- tokens
\* The pieces target.split(',') can yield (line 610).
Vocabulary ==
    {"tackle", "ember", "blaze", "levitate", " OU", "cap", "red", "3", "all",
     "fire type", "flying type", "fakemove", "bogus type"}

\* toId(): lower-case, alphanumerics only.
toId(name) ==
    CASE name = " OU" -> "ou"
      [] name = "fire type" -> "firetype"
      [] name = "flying type" -> "flyingtype"
      [] name = "bogus type" -> "bogustype"
      [] name = "Tackle" -> "tackle"
      [] name = "Ember" -> "ember"
      [] name = "Blaze" -> "blaze"
      [] name = "Levitate" -> "levitate"
      [] name = "Torrent" -> "torrent"
      [] name = "Mimic" -> "mimic"
      [] name = "Lider" -> "lider"
      [] name = "Elite" -> "elite"
      [] name = "Ana" -> "ana"
      [] OTHER -> name

\* Tools.getMove(name): exists iff the id is in the Movedex; String(move) is
\* its name.
getMove(name) ==
    IF toId(name) \in DOMAIN Movedex
    THEN [exists |-> TRUE, id |-> toId(name), name |-> Movedex[toId(name)]]
    ELSE [exists |-> FALSE, id |-> toId(name), name |-> name]

\* Tools.getAbility(name).
getAbility(name) ==
    IF toId(name) \in DOMAIN Abilitydex
    THEN [exists |-> TRUE, id |-> toId(name), name |-> Abilitydex[toId(name)]]
    ELSE [exists |-> FALSE, id |-> toId(name), name |-> name]

\* targets[i].trim()
Trim(tok) == IF tok = " OU" THEN "OU" ELSE tok

\* String.prototype.toLowerCase on the strings the command lower-cases.
toLowerCase(s) ==
    CASE s = "OU" -> "ou"
      [] s = "UU" -> "uu"
      [] s = "CAP" -> "cap"
      [] s = "Illegal" -> "illegal"
      [] s = "Red" -> "red"
      [] s = "Blue" -> "blue"
      [] s = "Brown" -> "brown"
      [] OTHER -> s

\* parseInt(target): the leading integer of the string, NaN (here 0, which
\* fails 0 < targetInt just as NaN does) when there is none.
parseInt(s) ==
    CASE s = "3" -> 3
      [] OTHER -> 0

\* target.indexOf(' type') > -1
hasTypeSuffix(s) == s \in {"fire type", "flying type", "bogus type"}

\* target.charAt(0).toUpperCase() + target.slice(1, target.indexOf(' type'))
typeName(s) ==
    CASE s = "fire type" -> "Fire"
      [] s = "flying type" -> "Flying"
      [] s = "bogus type" -> "Bogus"
      [] OTHER -> s


\* ------------------------------------------------------------------ state
VARIABLES
    pc,            \* position in the handler
    catalog,       \* key order of Tools.data.Pokedex for this invocation
    broadcasting,  \* this.broadcasting
    ntok,          \* number of elements of targets consumed by the for loop
    moves, ability, tiers, colours, gens, types,   \* the six accumulators (611)
    count,         \* number of populated categories (614)
    showAll,       \* (615)
    results,       \* var results (717): undefined until the first iteration
    reply,         \* what sendReply / sendReplyBox was called with
    applied,       \* history: the categories the evaluation loop applied
    unmatched,     \* history: tokens read that belong to no search category
    seen,          \* history: how many move / ability / type tokens were read
    sent,          \* history: number of sendReply / sendReplyBox calls made
    readFrom,      \* history: the datasets the lookups of this invocation read
    learn,         \* the state of a learn invocation (lines 808-866)
    pair,          \* a query, a reordering of it, and the outcome of both
    effect,        \* the state of an effectiveness invocation (lines 906-948)
    league         \* the league: gyms, registrations, challengers lists

vars == <<pc, catalog, broadcasting, ntok, moves, ability, tiers, colours, gens,
          types, count, showAll, results, reply, applied, unmatched, seen,
          sent, readFrom, learn, pair, effect, league>>

\* What the dexsearch steps leave alone.
otherVars == <<learn, pair, effect, league>>

\* The value of learn, pair, effect, league while another command is
\* modelled.
Idle == [pc |-> "idle"]

\* An accumulator object: its own keys other than 'count', in insertion
\* order, and its count property (undefined and 0 behave alike in every
\* test the code makes: !x.count, x.count === n, x.count > 0).
EmptyCat == [keys |-> <<>>, count |-> 0]

Range(s) == {s[k] : k \in DOMAIN s}

\* obj[key] = 1
SetKey(keys, k) == IF k \in Range(keys) THEN keys ELSE Append(keys, k)

NoReply == [kind |-> "none", token |-> "", names |-> <<>>, hidden |-> 0]
Error(kind, tok) == [kind |-> kind, token |-> tok, names |-> <<>>, hidden |-> 0]

Undefined == [def |-> FALSE, list |-> <<>>]
Defined(list) == [def |-> TRUE, list |-> list]

Init ==
    /\ pc = "start"
    /\ catalog \in Catalogs
    /\ broadcasting = FALSE
    /\ ntok = 0
    /\ moves = EmptyCat /\ ability = EmptyCat /\ tiers = EmptyCat
    /\ colours = EmptyCat /\ gens = EmptyCat /\ types = EmptyCat
    /\ count = 0
    /\ showAll = FALSE
    /\ results = Undefined
    /\ reply = NoReply
    /\ applied = <<>>
    /\ unmatched = {}
    /\ seen = [move |-> 0, ability |-> 0, type |-> 0]
    /\ sent = 0
    /\ readFrom = {}
    /\ learn = Idle
    /\ pair = Idle
    /\ effect = Idle
    /\ league = Idle

\* Lines 607-610.  how: "plain" (/dexsearch), "broadcast" (!dexsearch by a
\* user who may broadcast), "denied" (!dexsearch by one who may not);
\* empty: target is the empty string.
Start(how, empty) ==
    /\ pc = "start"
    /\ IF how = "denied"
       THEN pc' = "done" /\ reply' = NoReply /\ broadcasting' = FALSE
       ELSE /\ broadcasting' = (how = "broadcast")
            /\ IF empty
               THEN pc' = "done" /\ reply' = Error("help", "")
               ELSE pc' = "classify" /\ reply' = NoReply
    /\ UNCHANGED <<catalog, ntok, moves, ability, tiers, colours, gens, types,
                   count, showAll, results, applied, unmatched, seen, sent,
                   readFrom, otherVars>>

\* ---------------------------------------------------- classification loop
\* Mutant of tokenKind: a token found in no category is taken for a move and
\* its lookup is left to the evaluation.
tokenKindDeferred(tok) ==
    LET target == toLowerCase(Trim(tok)) IN
    IF getMove(tok).exists THEN "move"
    ELSE IF getAbility(tok).exists THEN "ability"
    ELSE IF target \in allTiers THEN "tier"
    ELSE IF target \in allColours THEN "colour"
    ELSE IF 0 < parseInt(target) /\ parseInt(target) < 6 THEN "gen"
    ELSE IF target = "all" THEN "all"
    ELSE IF hasTypeSuffix(target)
         THEN (IF typeName(target) \in TypeChart THEN "type" ELSE "skipped")
         ELSE "move"

\* The branch of the if-chain of lines 619-699 that a token takes.
tokenKind(tok) ==
    LET target == toLowerCase(Trim(tok)) IN
    IF getMove(tok).exists THEN "move"
    ELSE IF getAbility(tok).exists THEN "ability"
    ELSE IF target \in allTiers THEN "tier"
    ELSE IF target \in allColours THEN "colour"
    ELSE IF 0 < parseInt(target) /\ parseInt(target) < 6 THEN "gen"
    ELSE IF target = "all" THEN "all"
    ELSE IF hasTypeSuffix(target)
         THEN (IF typeName(target) \in TypeChart THEN "type" ELSE "skipped")
         ELSE "unrecognized"

\* The member a token of the given kind records in its accumulator.
tokenKey(tok, kind) ==
    LET target == toLowerCase(Trim(tok)) IN
    CASE kind = "move" -> getMove(tok).name
      [] kind = "ability" -> getAbility(tok).name
      [] kind = "gen" -> parseInt(target)
      [] kind = "type" -> typeName(target)
      [] OTHER -> target

\* Mutant of accumulate: the object is replaced, so only the member named
\* last is kept.
accumulateLast(cat, key) == [keys |-> <<key>>, count |-> cat.count + 1]

\* if (!x.count) { count++; x.count = 0; }  x[key] = 1;  x.count++;
accumulate(cat, key) == [keys |-> SetKey(cat.keys, key), count |-> cat.count + 1]

\* Mutant of moveLimit: off by one.
moveLimitLate(m) == m.count = 5

\* The limit tests of lines 625, 639 and 690.
moveLimit(m) == m.count = 4
abilityLimit(a) == a.count = 1
typeLimit(t) == t.count = 2

\* Mutant of tokenError: the test of this.broadcasting is missing.
tokenErrorAnyAll(tok, kind, m, a, t, bc) ==
    CASE kind = "move" /\ moveLimit(m) -> "moveLimit"
      [] kind = "ability" /\ abilityLimit(a) -> "abilityLimit"
      [] kind = "type" /\ typeLimit(t) -> "typeLimit"
      [] kind = "unrecognized" -> "unrecognized"
      [] OTHER -> "none"

\* The reply a token aborts the loop with, "none" when the loop goes on.
tokenError(tok, kind, m, a, t, bc) ==
    CASE kind = "move" /\ moveLimit(m) -> "moveLimit"
      [] kind = "ability" /\ abilityLimit(a) -> "abilityLimit"
      [] kind = "type" /\ typeLimit(t) -> "typeLimit"
      [] kind = "all" /\ bc -> "broadcastAll"
      [] kind = "unrecognized" -> "unrecognized"
      [] OTHER -> "none"

\* Tokens that name nothing in any search category (used by the history
\* variable only, not by the handler).
nameless(tok) ==
    LET target == toLowerCase(Trim(tok)) IN
    /\ toId(tok) \notin DOMAIN Movedex
    /\ toId(tok) \notin DOMAIN Abilitydex
    /\ target \notin allTiers \cup allColours \cup {"1", "2", "3", "4", "5", "all"}
    /\ ~(hasTypeSuffix(target) /\ typeName(target) \in TypeChart)

\* Mutant of returns: the reply is sent but the handler goes on.
returnsNever(err) == FALSE

\* The return in front of the sendReply calls of lines 626, 640, 678, 691
\* and 698: an error reply ends the handler.
returns(err) == err # "none"

\* One iteration of for (var i in targets), lines 618-700.
Classify(tok) ==
    LET kind == tokenKind(tok)
        key == tokenKey(tok, kind)
        err == tokenError(tok, kind, moves, ability, types, broadcasting)
        cat == CASE kind = "move" -> moves [] kind = "ability" -> ability
                 [] kind = "tier" -> tiers [] kind = "colour" -> colours
                 [] kind = "gen" -> gens [] kind = "type" -> types
                 [] OTHER -> EmptyCat
        counted == kind \in {"move", "ability", "tier", "colour", "gen", "type"}
        upd(k, c) == IF kind = k /\ err = "none" THEN accumulate(c, key) ELSE c
    IN
    /\ pc = "classify"
    /\ ntok < MaxTokens
    /\ ntok' = ntok + 1
    /\ count' = IF counted /\ cat.count = 0 THEN count + 1 ELSE count
    /\ moves' = upd("move", moves)
    /\ ability' = upd("ability", ability)
    /\ tiers' = upd("tier", tiers)
    /\ colours' = upd("colour", colours)
    /\ gens' = upd("gen", gens)
    /\ types' = upd("type", types)
    /\ showAll' = (showAll \/ (kind = "all" /\ err = "none"))
    /\ pc' = IF returns(err) THEN "done" ELSE "classify"
    /\ reply' = IF err = "none" THEN reply ELSE Error(err, Trim(tok))
    /\ sent' = IF err = "none" THEN sent ELSE sent + 1
    /\ readFrom' = readFrom \cup {catalog}
    /\ unmatched' = IF nameless(tok) THEN unmatched \cup {tok} ELSE unmatched
    /\ seen' = [move |-> seen.move + (IF toId(tok) \in DOMAIN Movedex THEN 1 ELSE 0),
                ability |-> seen.ability + (IF toId(tok) \in DOMAIN Abilitydex THEN 1 ELSE 0),
                type |-> seen.type + (IF hasTypeSuffix(toLowerCase(Trim(tok)))
                                         /\ typeName(toLowerCase(Trim(tok))) \in TypeChart
                                      THEN 1 ELSE 0)]
    /\ UNCHANGED <<catalog, broadcasting, results, applied, otherVars>>

\* Mutant of emptyQuery: the all flag is not looked at, so the test fires
\* only for a query that set nothing at all.
emptyQueryNoFlag(all, n) == ~all /\ n = 0

\* The test of line 702.
emptyQuery(all, n) == all /\ n = 0

\* Line 702, reached when the for loop has run over every element of targets
\* (split always yields at least one).
EndClassify ==
    /\ pc = "classify"
    /\ ntok >= 1
    /\ IF emptyQuery(showAll, count)
       THEN pc' = "done" /\ reply' = Error("emptyAll", "") /\ sent' = sent + 1
       ELSE pc' = "eval" /\ reply' = reply /\ sent' = sent
    /\ UNCHANGED <<catalog, broadcasting, ntok, moves, ability, tiers, colours,
                   gens, types, count, showAll, results, applied, unmatched, seen,
                   readFrom, otherVars>>


\* ------------------------------------------------------- evaluation loop
\* key in obj, for a key other than 'count'.
hasKey(cat, k) == k \in Range(cat.keys)

\* Mutant of keepInitially: the Illegal test is missing.
keepInitiallyNoIllegal(id, ti) ==
    Pokedex[id].tier # "CAP" \/ hasKey(ti, "cap")

\* Lines 708-713: the first working set.
keepInitially(id, ti) ==
    /\ Pokedex[id].tier # "Illegal"
    /\ (Pokedex[id].tier # "CAP" \/ hasKey(ti, "cap"))

initialSet(cat, ti) == SelectSeq(cat, LAMBDA id : keepInitially(id, ti))

\* Mutant of typeMatch: either slot suffices also when two types are asked.
typeMatchEither(id, t) ==
    LET ty == Pokedex[id].types
    IN  hasKey(t, ty[1]) \/ (Len(ty) >= 2 /\ hasKey(t, ty[2]))

\* Lines 721-725.  types[1] of a single-typed species is undefined, and
\* 'undefined' is no key of types.
typeMatch(id, t) ==
    LET ty == Pokedex[id].types
        first == hasKey(t, ty[1])
        second == Len(ty) >= 2 /\ hasKey(t, ty[2])
    IN  IF t.count = 1 THEN first \/ second ELSE first /\ second

\* Line 733.
tierMatch(id, ti) == hasKey(ti, toLowerCase(Pokedex[id].tier))

\* Line 751.
colourMatch(id, co) == hasKey(co, toLowerCase(Pokedex[id].color))

\* Line 779.
genMatch(id, ge) == hasKey(ge, Pokedex[id].gen)

\* Lines 741-743: results.add once for every ability slot that holds the
\* requested ability.
RECURSIVE abilitySlots(_, _, _)
abilitySlots(id, slots, ab) ==
    IF slots = <<>> THEN <<>>
    ELSE (IF hasKey(ab, getAbility(Head(slots)).name) THEN <<id>> ELSE <<>>)
         \o abilitySlots(id, Tail(slots), ab)

RECURSIVE abilityFilter(_, _)
abilityFilter(temp, ab) ==
    IF temp = <<>> THEN <<>>
    ELSE abilitySlots(Head(temp), Pokedex[Head(temp)].abilities, ab)
         \o abilityFilter(Tail(temp), ab)

\* Tools.checkLearnset(move, template, lsetData): TRUE when there is a
\* problem.  lsetData carries what the earlier moves of the same species
\* required; a species marked incompatible cannot combine two different moves.
checkLearnset(move, id, lsetData) ==
    \/ move \notin Pokedex[id].learnset
    \/ (Pokedex[id].incompatible /\ lsetData # {} /\ move \notin lsetData)

\* Mutant of checkMoves: problem is only ever set, never cleared, so a
\* species inherits the problem of the one examined before it.
RECURSIVE checkMovesSticky(_, _, _, _)
checkMovesSticky(id, keys, lsetData, problem) ==
    IF keys = <<>> THEN [problem |-> problem, unknown |-> ""]
    ELSE LET move == getMove(Head(keys)) IN
         IF ~move.exists THEN [problem |-> problem, unknown |-> move.name]
         ELSE IF checkLearnset(move.name, id, lsetData)
              THEN [problem |-> TRUE, unknown |-> ""]
              ELSE checkMovesSticky(id, Tail(keys), lsetData \cup {move.name}, problem)

\* Lines 763-770 for one species: the keys of moves in insertion order
\* ('count' is skipped by the test of line 765).  problem is the value the
\* variable holds on entry; unknown is the move named by line 766, if any.
RECURSIVE checkMoves(_, _, _, _)
checkMoves(id, keys, lsetData, problem) ==
    IF keys = <<>> THEN [problem |-> problem, unknown |-> ""]
    ELSE LET move == getMove(Head(keys)) IN
         IF ~move.exists THEN [problem |-> problem, unknown |-> move.name]
         ELSE IF checkLearnset(move.name, id, lsetData)
              THEN [problem |-> TRUE, unknown |-> ""]
              ELSE checkMoves(id, Tail(keys), lsetData \cup {move.name}, FALSE)

\* Lines 758-772: problem is declared once and lives across the species.
RECURSIVE moveFilter(_, _, _, _)
moveFilter(temp, keys, problem, acc) ==
    IF temp = <<>> THEN [list |-> acc, unknown |-> ""]
    ELSE LET r == checkMoves(Head(temp), keys, {}, problem) IN
         IF r.unknown # "" THEN [list |-> acc, unknown |-> r.unknown]
         ELSE moveFilter(Tail(temp), keys, r.problem,
                         IF r.problem THEN acc ELSE Append(acc, Head(temp)))

\* Mutant of nextCategory: the tier block stands before the type block.
nextCategoryTierFirst(t, ti, ab, co, m, ge) ==
    IF ti.count > 0 THEN "tier"
    ELSE IF t.count > 0 THEN "type"
    ELSE IF ab.count > 0 THEN "ability"
    ELSE IF co.count > 0 THEN "colour"
    ELSE IF m.count > 0 THEN "move"
    ELSE IF ge.count > 0 THEN "gen"
    ELSE "none"

\* The category an iteration of the while loop applies: the first of the
\* if-blocks of lines 719-783 whose count is positive.
nextCategory(t, ti, ab, co, m, ge) ==
    IF t.count > 0 THEN "type"
    ELSE IF ti.count > 0 THEN "tier"
    ELSE IF ab.count > 0 THEN "ability"
    ELSE IF co.count > 0 THEN "colour"
    ELSE IF m.count > 0 THEN "move"
    ELSE IF ge.count > 0 THEN "gen"
    ELSE "none"

\* Mutant of workingSet: every iteration starts again from the catalog.
workingSetRestart(res, cat, ti) == initialSet(cat, ti)

\* Lines 706-716.
workingSet(res, cat, ti) == IF ~res.def THEN initialSet(cat, ti) ELSE res.list

zero(cat) == [cat EXCEPT !.count = 0]

\* One iteration of while (count > 0), lines 704-784.
EvalStep ==
    LET tempResults == workingSet(results, catalog, tiers)
        which == nextCategory(types, tiers, ability, colours, moves, gens)
        byMoves == moveFilter(tempResults, moves.keys, FALSE, <<>>)
        out == CASE which = "type" -> SelectSeq(tempResults, LAMBDA id : typeMatch(id, types))
                 [] which = "tier" -> SelectSeq(tempResults, LAMBDA id : tierMatch(id, tiers))
                 [] which = "ability" -> abilityFilter(tempResults, ability)
                 [] which = "colour" -> SelectSeq(tempResults, LAMBDA id : colourMatch(id, colours))
                 [] which = "move" -> byMoves.list
                 [] which = "gen" -> SelectSeq(tempResults, LAMBDA id : genMatch(id, gens))
                 [] OTHER -> <<>>
    IN
    /\ pc = "eval"
    /\ count > 0
    /\ count' = count - 1
    /\ results' = Defined(out)
    /\ applied' = Append(applied, which)
    /\ types' = IF which = "type" THEN zero(types) ELSE types
    /\ tiers' = IF which = "tier" THEN zero(tiers) ELSE tiers
    /\ ability' = IF which = "ability" THEN zero(ability) ELSE ability
    /\ colours' = IF which = "colour" THEN zero(colours) ELSE colours
    /\ gens' = IF which = "gen" THEN zero(gens) ELSE gens
    /\ IF which = "move" /\ byMoves.unknown # ""
       THEN /\ pc' = "done"
            /\ reply' = Error("notKnownMove", byMoves.unknown)
            /\ sent' = sent + 1
            /\ moves' = moves
       ELSE /\ pc' = "eval"
            /\ reply' = reply
            /\ sent' = sent
            /\ moves' = IF which = "move" THEN zero(moves) ELSE moves
    /\ readFrom' = readFrom \cup {catalog}
    /\ UNCHANGED <<catalog, broadcasting, ntok, showAll, unmatched, seen, otherVars>>

\* ------------------------------------------------------------ formatting
\* Line 788: results[i] = results[i].species
RECURSIVE speciesNames(_)
speciesNames(list) ==
    IF list = <<>> THEN <<>>
    ELSE <<Pokedex[Head(list)].species>> \o speciesNames(Tail(list))

\* Line 789.
showsEverything(all, n) == all \/ n <= output

\* Lines 786-801.  In the truncating branch the first statement (792) calls
\* string, a name nothing defines: the call throws a ReferenceError and the
\* statements after it (the shuffle, the slice, the trailer, the reply) never
\* run.
formatReply(res, all) ==
    IF res.def /\ Len(res.list) > 0
    THEN IF showsEverything(all, Len(res.list))
         THEN [kind |-> "list", token |-> "", names |-> speciesNames(res.list), hidden |-> 0]
         ELSE Error("ReferenceError", "string")
    ELSE Error("noneFound", "")

Format ==
    /\ pc = "eval"
    /\ count <= 0
    /\ pc' = "done"
    /\ reply' = formatReply(results, showAll)
    /\ sent' = IF reply'.kind = "ReferenceError" THEN sent ELSE sent + 1
    /\ UNCHANGED <<catalog, broadcasting, ntok, moves, ability, tiers, colours,
                   gens, types, count, showAll, results, applied, unmatched, seen,
                   readFrom, otherVars>>

\* Mutant of betweenInvocations: the dataset may also be swapped while the
\* evaluation loop runs.
betweenInvocationsOrEval(p) == p \in {"start", "eval"}

\* The handler is one synchronous function body (606-802): it has no
\* callback, timer or other suspension point, so another step of the
\* process can only run before it starts or after it has returned.
betweenInvocations(p) == p = "start"

\* The out-of-band replacement of the dataset (Tools.data) by another step
\* of the process.
ReplaceCatalog(cat) ==
    /\ betweenInvocations(pc)
    /\ cat # catalog
    /\ catalog' = cat
    /\ UNCHANGED <<pc, broadcasting, ntok, moves, ability, tiers, colours, gens,
                   types, count, showAll, results, reply, applied, unmatched,
                   seen, sent, readFrom, otherVars>>

\* --------------------------------------------------------- specification
Next ==
    \/ \E how \in {"plain", "broadcast", "denied"}, empty \in BOOLEAN : Start(how, empty)
    \/ \E tok \in Vocabulary : Classify(tok)
    \/ EndClassify
    \/ EvalStep
    \/ Format
    \/ \E cat \in Catalogs : ReplaceCatalog(cat)

Spec == Init /\ [][Next]_vars


\* ======================================================= the learn command
\* Lines 808-866.  learn is a record: the command name, targets, the loop
\* index i, lsetData, problem, move, the reply, and two history fields
\* (looked: the tokens given to Tools.getMove, checked: the tokens whose move
\* was given to Tools.checkLearnset).

\* Largest number of moves in a learn command.
MaxMoves == 2
\* Largest number of event sources of one generation the engine reports.
MaxRun == 5

SpeciesTokens == {"a", "b", "e", "missingno"}
MoveTokens == {"tackle", "ember", "fakemove"}

\* Tools.getTemplate(name).
getTemplate(name) ==
    IF toId(name) \in DOMAIN Pokedex
    THEN [exists |-> TRUE, id |-> toId(name)]
    ELSE [exists |-> FALSE, id |-> toId(name)]

\* A source tag of lsetData.sources: type is its first two characters
\* (generation and method), detail what follows them (0: nothing follows).
Tag(t, d) == [type |-> t, detail |-> d]

\* The lists of sources the legality engine may leave in lsetData.sources
\* (as sets: the command sorts them before use).
SourceSets ==
    {{Tag("5S", k) : k \in 1..n} \cup {Tag("4E", k) : k \in 1..m}
        \cup (IF plain THEN {Tag("5D", 0)} ELSE {}) :
        n \in 0..MaxRun, m \in 0..2, plain \in BOOLEAN}

\* Array.prototype.sort on source tags: string order, i.e. by type, then by
\* detail.
typeRank(t) == CASE t = "4E" -> 1 [] t = "5D" -> 2 [] OTHER -> 3

tagBefore(x, y) ==
    \/ typeRank(x.type) < typeRank(y.type)
    \/ (x.type = y.type /\ x.detail < y.detail)

RECURSIVE sortTags(_)
sortTags(S) ==
    IF S = {} THEN <<>>
    ELSE LET x == CHOOSE x \in S : \A y \in S : x = y \/ tagBefore(x, y)
         IN  <<x>> \o sortTags(S \ {x})

\* Line 850: the entry is appended.
showsEntry(all, prevSourceCount) == all \/ prevSourceCount < 3

\* Lines 846-860: the pieces appended to buffer, in order.  li: a list item
\* header "<li>gen G method"; first: ": detail"; more: ", detail";
\* ellipsis: ", ...".
RECURSIVE renderSources(_, _, _, _)
renderSources(sources, all, prevSourceType, prevSourceCount) ==
    IF sources = <<>> THEN <<>>
    ELSE LET source == Head(sources) IN
         IF source.type = prevSourceType
         THEN (IF prevSourceCount < 0 THEN <<[k |-> "first", type |-> source.type, detail |-> source.detail]>>
               ELSE IF showsEntry(all, prevSourceCount)
                    THEN <<[k |-> "more", type |-> source.type, detail |-> source.detail]>>
               ELSE IF prevSourceCount = 3
                    THEN <<[k |-> "ellipsis", type |-> source.type, detail |-> 0]>>
               ELSE <<>>)
              \o renderSources(Tail(sources), all, prevSourceType, prevSourceCount + 1)
         ELSE <<[k |-> "li", type |-> source.type, detail |-> 0]>>
              \o (IF source.detail # 0
                  THEN <<[k |-> "first", type |-> source.type, detail |-> source.detail]>>
                  ELSE <<>>)
              \o renderSources(Tail(sources), all, source.type,
                               IF source.detail # 0 THEN 0 ELSE -1)

NoLearnReply == [kind |-> "none", name |-> "", buffer |-> <<>>]
LearnReply(kind, name, buffer) == [kind |-> kind, name |-> name, buffer |-> buffer]

LearnInputs ==
    {<<>>} \cup
    {<<sp>> \o ms : sp \in SpeciesTokens,
                   ms \in UNION {[1..n -> MoveTokens] : n \in 0..MaxMoves}}

InitLearn ==
    /\ pc = "idle"
    /\ catalog = CatalogMixed
    /\ broadcasting = FALSE
    /\ ntok = 0
    /\ moves = EmptyCat /\ ability = EmptyCat /\ tiers = EmptyCat
    /\ colours = EmptyCat /\ gens = EmptyCat /\ types = EmptyCat
    /\ count = 0
    /\ showAll = FALSE
    /\ results = Undefined
    /\ reply = NoReply
    /\ applied = <<>>
    /\ unmatched = {}
    /\ seen = [move |-> 0, ability |-> 0, type |-> 0]
    /\ sent = 0
    /\ readFrom = {}
    /\ pair = Idle
    /\ effect = Idle
    /\ league = Idle
    /\ \E cmd \in {"learn", "learnall"}, targets \in LearnInputs, S \in SourceSets :
        learn = [pc |-> "start", cmd |-> cmd, targets |-> targets, sources |-> S,
                 i |-> 1, lsetData |-> {}, problem |-> FALSE, move |-> "",
                 looked |-> <<>>, checked |-> <<>>, reply |-> NoLearnReply]

dexVars == <<pc, catalog, broadcasting, ntok, moves, ability, tiers, colours, gens,
             types, count, showAll, results, reply, applied, unmatched, seen,
             sent, readFrom>>

\* Lines 809-828.  targets[0] of the code is targets[1] here.
LearnStart(how) ==
    /\ learn.pc = "start"
    /\ learn' =
        IF learn.targets = <<>>
        THEN [learn EXCEPT !.pc = "done", !.reply = LearnReply("help", "", <<>>)]
        ELSE IF how = "denied"
        THEN [learn EXCEPT !.pc = "done"]
        ELSE IF ~getTemplate(learn.targets[1]).exists
        THEN [learn EXCEPT !.pc = "done",
                !.reply = LearnReply("pokemonNotFound", getTemplate(learn.targets[1]).id, <<>>)]
        ELSE IF Len(learn.targets) < 2
        THEN [learn EXCEPT !.pc = "done", !.reply = LearnReply("needMove", "", <<>>)]
        ELSE [learn EXCEPT !.pc = "loop"]
    /\ UNCHANGED <<dexVars, pair, effect, league>>

\* Mutant of breaksOn: the loop goes on after a problem.
breaksNever(problem) == FALSE

\* Line 836: if (problem) break;
breaksOn(problem) == problem

\* One iteration of the for loop of lines 830-837 (i counts from 1 in the
\* code, the move is targets[i + 1] here).
LearnMove ==
    LET tok == learn.targets[learn.i + 1]
        move == getMove(tok)
        template == getTemplate(learn.targets[1])
        problem == checkLearnset(move.name, template.id, learn.lsetData)
    IN
    /\ learn.pc = "loop"
    /\ learn.i + 1 <= Len(learn.targets)
    /\ learn' =
        IF ~move.exists
        THEN [learn EXCEPT !.pc = "done", !.move = move.name,
                !.looked = Append(@, tok),
                !.reply = LearnReply("moveNotFound", move.id, <<>>)]
        ELSE [learn EXCEPT !.pc = IF breaksOn(problem) THEN "render" ELSE "loop",
                !.move = move.name,
                !.i = @ + 1,
                !.problem = problem,
                !.lsetData = IF problem THEN @ ELSE @ \cup {move.name},
                !.looked = Append(@, tok),
                !.checked = Append(@, tok)]
    /\ UNCHANGED <<dexVars, pair, effect, league>>

\* Line 838: targets.length > 2 ? "these moves" : move.name
learnedName(targets, move) == IF Len(targets) > 2 THEN "these moves" ELSE move

\* Lines 838-865.  The sources are those the engine left in lsetData; the
\* sourcesBefore line (862) and the hidden-ability note (858) are left out.
LearnRender ==
    /\ \/ learn.pc = "render"
       \/ (learn.pc = "loop" /\ learn.i + 1 > Len(learn.targets))
    /\ learn' =
        [learn EXCEPT !.pc = "done",
            !.reply = IF learn.problem
                      THEN LearnReply("cant", learnedName(learn.targets, learn.move), <<>>)
                      ELSE LearnReply("can", learnedName(learn.targets, learn.move),
                               renderSources(sortTags(learn.sources),
                                             learn.cmd = "learnall", "", 0))]
    /\ UNCHANGED <<dexVars, pair, effect, league>>

NextLearn ==
    \/ \E how \in {"plain", "denied"} : LearnStart(how)
    \/ LearnMove
    \/ LearnRender

SpecLearn == InitLearn /\ [][NextLearn]_vars

\* ================================== a query as a function of its tokens
\* The handler of lines 606-802 run to completion on a whole token list, and
\* run again on the same tokens in another order.

\* Largest number of comma-separated tokens of a query.
MaxQuery == 3

QueryVocabulary == Vocabulary \cup {"mimic"}
QueryCatalogs == {CatalogMixed, CatalogMany}

\* The local variables of the handler before the for loop (611-616); err,
\* token: the error reply the loop returned with; kinds: history, the branch
\* every token read took.
QueryStart ==
    [moves |-> EmptyCat, ability |-> EmptyCat, tiers |-> EmptyCat,
     colours |-> EmptyCat, gens |-> EmptyCat, types |-> EmptyCat,
     count |-> 0, showAll |-> FALSE, err |-> "none", token |-> "", kinds |-> <<>>]

\* Mutant of classifyToken: the ability test is an if of its own, not an
\* else-if, so a token that is a move and an ability is counted as both.
classifyTokenFallThrough(st, tok, bc) ==
    LET kind == tokenKind(tok)
        key == tokenKey(tok, kind)
        err == tokenError(tok, kind, st.moves, st.ability, st.types, bc)
        cat == CASE kind = "move" -> st.moves [] kind = "ability" -> st.ability
                 [] kind = "tier" -> st.tiers [] kind = "colour" -> st.colours
                 [] kind = "gen" -> st.gens [] kind = "type" -> st.types
                 [] OTHER -> EmptyCat
        counted == kind \in {"move", "ability", "tier", "colour", "gen", "type"}
        upd(k, c) == IF kind = k /\ err = "none" THEN accumulate(c, key) ELSE c
    IN  [moves |-> upd("move", st.moves),
         ability |-> IF kind = "move" /\ getAbility(tok).exists /\ err = "none"
                     THEN accumulate(st.ability, getAbility(tok).name)
                     ELSE upd("ability", st.ability),
         tiers |-> upd("tier", st.tiers),
         colours |-> upd("colour", st.colours),
         gens |-> upd("gen", st.gens),
         types |-> upd("type", st.types),
         count |-> IF counted /\ cat.count = 0 THEN st.count + 1 ELSE st.count,
         showAll |-> (st.showAll \/ (kind = "all" /\ err = "none")),
         err |-> err,
         token |-> IF err = "none" THEN "" ELSE Trim(tok),
         kinds |-> Append(st.kinds, kind)]

\* The body of for (var i in targets), lines 618-700, on the locals st.
classifyToken(st, tok, bc) ==
    LET kind == tokenKind(tok)
        key == tokenKey(tok, kind)
        err == tokenError(tok, kind, st.moves, st.ability, st.types, bc)
        cat == CASE kind = "move" -> st.moves [] kind = "ability" -> st.ability
                 [] kind = "tier" -> st.tiers [] kind = "colour" -> st.colours
                 [] kind = "gen" -> st.gens [] kind = "type" -> st.types
                 [] OTHER -> EmptyCat
        counted == kind \in {"move", "ability", "tier", "colour", "gen", "type"}
        upd(k, c) == IF kind = k /\ err = "none" THEN accumulate(c, key) ELSE c
    IN  [moves |-> upd("move", st.moves),
         ability |-> upd("ability", st.ability),
         tiers |-> upd("tier", st.tiers),
         colours |-> upd("colour", st.colours),
         gens |-> upd("gen", st.gens),
         types |-> upd("type", st.types),
         count |-> IF counted /\ cat.count = 0 THEN st.count + 1 ELSE st.count,
         showAll |-> (st.showAll \/ (kind = "all" /\ err = "none")),
         err |-> err,
         token |-> IF err = "none" THEN "" ELSE Trim(tok),
         kinds |-> Append(st.kinds, kind)]

\* The for loop of lines 618-700: it ends with the list or at the first
\* return.
RECURSIVE classifyAll(_, _, _)
classifyAll(toks, st, bc) ==
    IF toks = <<>> \/ returns(st.err) THEN st
    ELSE classifyAll(Tail(toks), classifyToken(st, Head(toks), bc), bc)

\* The while loop of lines 704-784 on the locals st; unknown is the move
\* line 766 names, if any.
RECURSIVE evalAll(_, _, _)
evalAll(st, res, cat) ==
    IF st.count <= 0 THEN [res |-> res, unknown |-> ""]
    ELSE LET tempResults == workingSet(res, cat, st.tiers)
             which == nextCategory(st.types, st.tiers, st.ability, st.colours,
                                   st.moves, st.gens)
             byMoves == moveFilter(tempResults, st.moves.keys, FALSE, <<>>)
             out == CASE which = "type" -> SelectSeq(tempResults, LAMBDA id : typeMatch(id, st.types))
                      [] which = "tier" -> SelectSeq(tempResults, LAMBDA id : tierMatch(id, st.tiers))
                      [] which = "ability" -> abilityFilter(tempResults, st.ability)
                      [] which = "colour" -> SelectSeq(tempResults, LAMBDA id : colourMatch(id, st.colours))
                      [] which = "move" -> byMoves.list
                      [] which = "gen" -> SelectSeq(tempResults, LAMBDA id : genMatch(id, st.gens))
                      [] OTHER -> <<>>
         IN  IF which = "move" /\ byMoves.unknown # ""
             THEN [res |-> Defined(out), unknown |-> byMoves.unknown]
             ELSE evalAll([st EXCEPT !.count = @ - 1,
                              !.types = IF which = "type" THEN zero(@) ELSE @,
                              !.tiers = IF which = "tier" THEN zero(@) ELSE @,
                              !.ability = IF which = "ability" THEN zero(@) ELSE @,
                              !.colours = IF which = "colour" THEN zero(@) ELSE @,
                              !.moves = IF which = "move" THEN zero(@) ELSE @,
                              !.gens = IF which = "gen" THEN zero(@) ELSE @],
                          Defined(out), cat)

\* Lines 610-801 for a non-empty target: the reply, the value of results
\* when the handler ended, and the locals the for loop left.
runQuery(toks, bc, cat) ==
    LET st == classifyAll(toks, QueryStart, bc) IN
    IF st.err # "none"
    THEN [reply |-> Error(st.err, st.token), results |-> Undefined, locals |-> st]
    ELSE IF emptyQuery(st.showAll, st.count)
    THEN [reply |-> Error("emptyAll", ""), results |-> Undefined, locals |-> st]
    ELSE LET ev == evalAll(st, Undefined, cat) IN
         IF ev.unknown # ""
         THEN [reply |-> Error("notKnownMove", ev.unknown), results |-> ev.res, locals |-> st]
         ELSE [reply |-> formatReply(ev.res, st.showAll), results |-> ev.res, locals |-> st]

\* The token list with the tokens at positions i and j exchanged.
swap(toks, i, j) ==
    [k \in DOMAIN toks |-> IF k = i THEN toks[j] ELSE IF k = j THEN toks[i] ELSE toks[k]]

Queries == UNION {[1..n -> QueryVocabulary] : n \in 1..MaxQuery}

NoOutcome == [reply |-> NoReply, results |-> Undefined, locals |-> QueryStart]

InitQuery ==
    /\ pc = "idle"
    /\ catalog \in QueryCatalogs
    /\ broadcasting \in BOOLEAN
    /\ ntok = 0
    /\ moves = EmptyCat /\ ability = EmptyCat /\ tiers = EmptyCat
    /\ colours = EmptyCat /\ gens = EmptyCat /\ types = EmptyCat
    /\ count = 0
    /\ showAll = FALSE
    /\ results = Undefined
    /\ reply = NoReply
    /\ applied = <<>>
    /\ unmatched = {}
    /\ seen = [move |-> 0, ability |-> 0, type |-> 0]
    /\ sent = 0
    /\ readFrom = {}
    /\ learn = Idle
    /\ effect = Idle
    /\ league = Idle
    /\ \E toks \in Queries :
        pair = [pc |-> "start", tokens |-> toks, permuted |-> toks,
                first |-> NoOutcome, second |-> NoOutcome]

\* /dexsearch (or !dexsearch, when broadcasting) with the tokens as given.
QueryRun ==
    /\ pair.pc = "start"
    /\ pair' = [pair EXCEPT !.pc = "ran",
                   !.first = runQuery(pair.tokens, broadcasting, catalog)]
    /\ UNCHANGED <<dexVars, learn, effect, league>>

\* The same command with two of its tokens exchanged, against the same
\* dataset.
QueryAgain(i, j) ==
    /\ pair.pc = "ran"
    /\ i \in DOMAIN pair.tokens /\ j \in DOMAIN pair.tokens /\ i < j
    /\ pair' = [pair EXCEPT !.pc = "done",
                   !.permuted = swap(pair.tokens, i, j),
                   !.second = runQuery(swap(pair.tokens, i, j), broadcasting, catalog)]
    /\ UNCHANGED <<dexVars, learn, effect, league>>

NextQuery ==
    \/ QueryRun
    \/ \E i \in 1..MaxQuery, j \in 1..MaxQuery : QueryAgain(i, j)

SpecQuery == InitQuery /\ [][NextQuery]_vars

\* ================================================ the effectiveness command
\* Lines 906-948.

\* What target.split(/[,/]/) can hold at an index; "" also stands for an
\* index past the end (undefined): both fail every lookup and the test of
\* line 932.
EffectTokens == {"a", "d", "fire", "water", "ground", "flying", "bogus", ""}

\* Largest number of pieces of the target.
MaxTargets == 3

\* targets[k] of the code is at(targets, k + 1).
at(targets, k) == IF k \in DOMAIN targets THEN targets[k] ELSE ""

\* Tools.getType(name): the id of a type is its capitalised name.
getType(name) ==
    LET id == CASE name = "fire" -> "Fire" [] name = "water" -> "Water"
                [] name = "ground" -> "Ground" [] name = "flying" -> "Flying"
                [] OTHER -> name
    IN  [exists |-> id \in TypeChart, id |-> id]

\* The damageTaken entries of the type chart: what a defending type takes
\* from an attacking type.
damageTaken(attack, defend) ==
    CASE attack = "Fire" /\ defend \in {"Fire", "Water"} -> "resists"
      [] attack = "Water" /\ defend \in {"Fire", "Ground"} -> "weak"
      [] attack = "Water" /\ defend = "Water" -> "resists"
      [] attack = "Ground" /\ defend = "Fire" -> "weak"
      [] attack = "Ground" /\ defend = "Flying" -> "immune"
      [] OTHER -> "normal"

\* Tools.getEffectiveness(type, pokemon): the sum over the defender's types
\* of +1 for a weakness and -1 for a resistance.
RECURSIVE getEffectiveness(_, _)
getEffectiveness(type, defTypes) ==
    IF defTypes = <<>> THEN 0
    ELSE (CASE damageTaken(type, Head(defTypes)) = "weak" -> 1
            [] damageTaken(type, Head(defTypes)) = "resists" -> -1
            [] OTHER -> 0)
         + getEffectiveness(type, Tail(defTypes))

\* Tools.getImmunity(type, pokemon): false when a type of the defender is
\* immune.
getImmunity(type, defTypes) ==
    \A k \in DOMAIN defTypes : damageTaken(type, defTypes[k]) # "immune"

\* Math.pow(2, n) for an integer n, as a fraction.
RECURSIVE pow2(_)
pow2(n) ==
    IF n = 0 THEN [num |-> 1, den |-> 1]
    ELSE IF n > 0 THEN [num |-> 2 * pow2(n - 1).num, den |-> 1]
    ELSE [num |-> 1, den |-> 2 * pow2(n + 1).den]

\* Mutant of factorOf: the immunity is not looked at.
factorOfExponent(notImmune, typeMod) == pow2(typeMod)

\* Lines 942-945.
factorOf(notImmune, typeMod) ==
    IF notImmune THEN pow2(typeMod) ELSE [num |-> 0, den |-> 1]

NoEffectReply == [kind |-> "none", type |-> "", factor |-> [num |-> 0, den |-> 1],
                  defender |-> <<>>]

\* Lines 907-947: the reply of the handler; canBroadcast is what
\* this.canBroadcast() answers.
effectivenessReply(targets, canBroadcast) ==
    LET t0 == at(targets, 1)
        t1 == at(targets, 2)
        t2 == at(targets, 3)
        direct == getTemplate(t0).exists /\ getType(t1).exists
        swapped == getTemplate(t1).exists /\ getType(t0).exists
        type == IF direct THEN getType(t1) ELSE getType(t0)
        twoTypes == getType(t0).exists /\ getType(t1).exists
        defTypes == IF direct THEN Pokedex[getTemplate(t0).id].types
                    ELSE IF swapped THEN Pokedex[getTemplate(t1).id].types
                    ELSE IF getType(t2).exists THEN <<getType(t1).id, getType(t2).id>>
                    ELSE <<getType(t1).id>>
    IN  IF ~direct /\ ~swapped /\ ~twoTypes
        THEN (IF t1 = ""
              THEN [NoEffectReply EXCEPT !.kind = "separated"]
              ELSE [NoEffectReply EXCEPT !.kind = "unrecognized"])
        ELSE IF ~canBroadcast THEN NoEffectReply
        ELSE [kind |-> "box", type |-> type.id,
              factor |-> factorOf(getImmunity(type.id, defTypes),
                                  getEffectiveness(type.id, defTypes)),
              defender |-> defTypes]

EffectInputs == UNION {[1..n -> EffectTokens] : n \in 1..MaxTargets}

InitEffect ==
    /\ pc = "idle"
    /\ catalog = CatalogMixed
    /\ broadcasting = FALSE
    /\ ntok = 0
    /\ moves = EmptyCat /\ ability = EmptyCat /\ tiers = EmptyCat
    /\ colours = EmptyCat /\ gens = EmptyCat /\ types = EmptyCat
    /\ count = 0
    /\ showAll = FALSE
    /\ results = Undefined
    /\ reply = NoReply
    /\ applied = <<>>
    /\ unmatched = {}
    /\ seen = [move |-> 0, ability |-> 0, type |-> 0]
    /\ sent = 0
    /\ readFrom = {}
    /\ learn = Idle
    /\ pair = Idle
    /\ league = Idle
    /\ \E targets \in EffectInputs :
        effect = [pc |-> "start", targets |-> targets, how |-> "", reply |-> NoEffectReply]

\* /effectiveness or !effectiveness; how as in Start.
Effectiveness(how) ==
    /\ effect.pc = "start"
    /\ effect' = [effect EXCEPT !.pc = "done", !.how = how,
                     !.reply = effectivenessReply(effect.targets, how # "denied")]
    /\ UNCHANGED <<dexVars, learn, pair, league>>

NextEffect == \E how \in {"plain", "broadcast", "denied"} : Effectiveness(how)

SpecEffect == InitEffect /\ [][NextEffect]_vars

\* ============================================================== the league
\* Lines 321-502 and 521-560: the gyms, their registration and their
\* challengers lists.  Every command is one synchronous handler, so it is
\* one step.

UserIds == {"lider", "elite", "ana"}

\* tour.lideres(), tour.altomando(): the ids registered with the league.
lideres == <<"lider">>
altomando == <<"elite">>

\* The users that come and go while the league runs.
Visitors == {"elite", "ana"}

\* user.name; tour.username(id).
userName(id) ==
    CASE id = "lider" -> "Lider" [] id = "elite" -> "Elite"
      [] id = "ana" -> "Ana" [] OTHER -> id

\* What a user may type after a command.
LeagueTargets == {"", "Lider", "Elite", "Ana", "all"}

\* Array.prototype.indexOf, counting from 1; 0 for -1.
indexOf(list, x) ==
    IF \E k \in DOMAIN list : list[k] = x
    THEN CHOOSE k \in DOMAIN list : list[k] = x /\ \A m \in DOMAIN list : list[m] = x => k <= m
    ELSE 0

\* list.splice(k, 1), k counting from 1.
splice(list, k) == SubSeq(list, 1, k - 1) \o SubSeq(list, k + 1, Len(list))

\* user.challengers: undefined until somebody challenges the user.
NoList == [def |-> FALSE, list |-> <<>>]
List(l) == [def |-> TRUE, list |-> l]

NoLeagueReply ==
    [cmd |-> "", user |-> "", target |-> "", kind |-> "none", turn |-> 0, names |-> <<>>]
LeagueReply(cmd, user, target, kind, turn, names) ==
    [cmd |-> cmd, user |-> user, target |-> target, kind |-> kind, turn |-> turn,
     names |-> names]

InitLeague ==
    /\ pc = "idle"
    /\ catalog = CatalogMixed
    /\ broadcasting = FALSE
    /\ ntok = 0
    /\ moves = EmptyCat /\ ability = EmptyCat /\ tiers = EmptyCat
    /\ colours = EmptyCat /\ gens = EmptyCat /\ types = EmptyCat
    /\ count = 0
    /\ showAll = FALSE
    /\ results = Undefined
    /\ reply = NoReply
    /\ applied = <<>>
    /\ unmatched = {}
    /\ seen = [move |-> 0, ability |-> 0, type |-> 0]
    /\ sent = 0
    /\ readFrom = {}
    /\ learn = Idle
    /\ pair = Idle
    /\ effect = Idle
    /\ league = [gymopen |-> [u \in UserIds |-> FALSE],
                 noinscription |-> [u \in UserIds |-> FALSE],
                 challengers |-> [u \in UserIds |-> NoList],
                 known |-> UserIds,
                 connected |-> UserIds,
                 reply |-> NoLeagueReply]

leagueFrame == UNCHANGED <<dexVars, learn, pair, effect>>

\* Users.get(id) answers a user.
found(id) == id \in league.known

\* var unfound = (!targetUser || !targetUser.connected), lines 467 and 486.
unfound(id) == ~found(id) \/ id \notin league.connected

\* Lines 321-336 (abrirliga) and 338-353 (cerrarliga): open is the value
\* given to user.gymopen.  The Alto Mando branch announces and sends no
\* reply to the user.
SetGym(user, open) ==
    LET cmd == IF open THEN "abrirliga" ELSE "cerrarliga" IN
    /\ user \in league.connected
    /\ league' =
        IF indexOf(lideres, user) > 0
        THEN [league EXCEPT !.gymopen[user] = open,
                 !.reply = LeagueReply(cmd, user, "", "leader", 0, <<>>)]
        ELSE IF indexOf(altomando, user) > 0
        THEN [league EXCEPT !.gymopen[user] = open,
                 !.reply = LeagueReply(cmd, user, "", "elite", 0, <<>>)]
        ELSE [league EXCEPT !.reply = LeagueReply(cmd, user, "", "notLeader", 0, <<>>)]
    /\ leagueFrame

\* Lines 523-539 (closereg) and 544-560 (openreg): closed is the value given
\* to user.noinscription.
SetRegistration(user, closed) ==
    LET cmd == IF closed THEN "closereg" ELSE "openreg" IN
    /\ user \in league.connected
    /\ league' =
        IF indexOf(lideres, user) > 0 \/ indexOf(altomando, user) > 0
        THEN [league EXCEPT !.noinscription[user] = closed,
                 !.reply = LeagueReply(cmd, user, "", "done", 0, <<>>)]
        ELSE [league EXCEPT !.reply = LeagueReply(cmd, user, "", "notLeader", 0, <<>>)]
    /\ leagueFrame

\* Lines 365-371: the names of the users of tour.lideres() that are present
\* with an open gym.
disponibles ==
    LET open(id) == found(id) /\ league.gymopen[id]
        ids == SelectSeq(lideres, open)
    IN  [k \in DOMAIN ids |-> userName(ids[k])]

\* Mutant of listedAt: the caller is never found in the list.
listedAtNever(list, id) == 0

\* Line 395: retado.challengers.indexOf(user.userid).
listedAt(list, id) == indexOf(list, id)

\* Lines 364-405 (retarlider).
Retar(user, target) ==
    LET id == toId(target)
        matched == \E k \in DOMAIN disponibles : toId(disponibles[k]) = id
        list == league.challengers[id].list
        index == listedAt(list, user)
    IN
    /\ user \in league.connected
    /\ league' =
        IF target = ""
        THEN [league EXCEPT !.reply =
                 LeagueReply("retarlider", user, "",
                     IF Len(disponibles) = 1 THEN "onlyOne"
                     ELSE IF Len(disponibles) > 0 THEN "several" ELSE "noneOpen",
                     0, disponibles)]
        ELSE IF ~matched
        THEN [league EXCEPT !.reply = LeagueReply("retarlider", user, id, "unavailable", 0, <<>>)]
        ELSE IF ~found(id)
        THEN [league EXCEPT !.reply = LeagueReply("retarlider", user, id, "error", 0, <<>>)]
        ELSE IF index = 0
        THEN IF league.noinscription[id]
             THEN [league EXCEPT !.challengers[id] = List(list),
                      !.reply = LeagueReply("retarlider", user, id, "closed", 0, <<>>)]
             ELSE [league EXCEPT !.challengers[id] = List(Append(list, user)),
                      !.reply = LeagueReply("retarlider", user, id, "sent", Len(list) + 1, <<>>)]
        ELSE [league EXCEPT !.challengers[id] = List(list),
                 !.reply = LeagueReply("retarlider", user, id, "already", index, <<>>)]
    /\ leagueFrame

\* !user.challengers || user.challengers === [] (lines 412, 462, 480): an
\* array is never identical to a new empty array, so the second test is
\* always false.
nobodyChallenged(ch) == ~ch.def

\* Lines 411-418 (retos).
Retos(user) ==
    LET ch == league.challengers[user] IN
    /\ user \in league.connected
    /\ league' =
        IF nobodyChallenged(ch)
        THEN [league EXCEPT !.reply = LeagueReply("retos", user, "", "nobody", 0, <<>>)]
        ELSE [league EXCEPT !.reply =
                 LeagueReply("retos", user, "", "list", 0,
                     [k \in DOMAIN ch.list |-> userName(ch.list[k])])]
    /\ leagueFrame

\* Mutant of mayRemove: a challenger who is still connected is removed too.
mayRemoveAnyone(id) == TRUE

\* Lines 466-468.
mayRemove(id) == unfound(id)

\* Lines 447-475 (cancelarreto).
Cancelar(user, target) ==
    LET id == toId(target)
        own == league.challengers[user]
        theirs == IF id \in UserIds THEN league.challengers[id] ELSE NoList
    IN
    /\ user \in league.connected
    /\ league' =
        IF ~league.gymopen[user]
        THEN IF ~found(id)
             THEN [league EXCEPT !.reply = LeagueReply("cancelarreto", user, id, "noUser", 0, <<>>)]
             ELSE IF ~theirs.def
             THEN [league EXCEPT !.reply = LeagueReply("cancelarreto", user, id, "noList", 0, <<>>)]
             ELSE IF indexOf(theirs.list, user) = 0
             THEN [league EXCEPT !.reply = LeagueReply("cancelarreto", user, id, "notChallenging", 0, <<>>)]
             ELSE [league EXCEPT
                      !.challengers[id] = List(splice(theirs.list, indexOf(theirs.list, user))),
                      !.reply = LeagueReply("cancelarreto", user, id, "cancelled", 0, <<>>)]
        ELSE IF nobodyChallenged(own)
             THEN [league EXCEPT !.reply = LeagueReply("cancelarreto", user, id, "nobody", 0, <<>>)]
             ELSE IF indexOf(own.list, id) = 0
             THEN [league EXCEPT !.reply = LeagueReply("cancelarreto", user, id, "notListed", 0, <<>>)]
             ELSE IF mayRemove(id)
             THEN [league EXCEPT
                      !.challengers[user] = List(splice(own.list, indexOf(own.list, id))),
                      !.reply = LeagueReply("cancelarreto", user, id, "removed", 0, <<>>)]
             ELSE [league EXCEPT !.reply = LeagueReply("cancelarreto", user, id, "stillHere", 0, <<>>)]
    /\ leagueFrame

\* Lines 479-502 (clearlist).  The loop of 483-493 removes the entries that
\* are unfound and keeps the others in their order; target is compared as
\* typed.
Clearlist(user, target) ==
    LET own == league.challengers[user]
        gone(id) == unfound(id)
        here(id) == ~unfound(id)
    IN
    /\ user \in league.connected
    /\ league' =
        IF nobodyChallenged(own)
        THEN [league EXCEPT !.reply = LeagueReply("clearlist", user, target, "nobody", 0, <<>>)]
        ELSE IF target = ""
        THEN [league EXCEPT !.challengers[user] = List(SelectSeq(own.list, here)),
                 !.reply = LeagueReply("clearlist", user, target, "cleared", 0,
                               SelectSeq(own.list, gone))]
        ELSE IF target = "all"
        THEN [league EXCEPT !.challengers[user] = List(<<>>),
                 !.reply = LeagueReply("clearlist", user, target, "emptied", 0, <<>>)]
        ELSE [league EXCEPT !.reply = LeagueReply("clearlist", user, target, "badParam", 0, <<>>)]
    /\ leagueFrame

\* A visitor's connection closes; later the server drops the user object
\* and with it the properties the commands gave it; the visitor may come
\* back.  reply holds the reply of the last command and is cleared by these
\* steps.
Disconnect(id) ==
    /\ id \in league.connected
    /\ league' = [league EXCEPT !.connected = @ \ {id}, !.reply = NoLeagueReply]
    /\ leagueFrame

Forget(id) ==
    /\ id \in league.known \ league.connected
    /\ league' = [league EXCEPT !.known = @ \ {id},
                     !.gymopen[id] = FALSE,
                     !.noinscription[id] = FALSE,
                     !.challengers[id] = NoList,
                     !.reply = NoLeagueReply]
    /\ leagueFrame

Connect(id) ==
    /\ id \notin league.connected
    /\ league' = [league EXCEPT !.known = @ \cup {id}, !.connected = @ \cup {id},
                     !.reply = NoLeagueReply]
    /\ leagueFrame

NextLeague ==
    \/ \E user \in UserIds, open \in BOOLEAN : SetGym(user, open)
    \/ \E user \in UserIds, closed \in BOOLEAN : SetRegistration(user, closed)
    \/ \E user \in UserIds, target \in LeagueTargets : Retar(user, target)
    \/ \E user \in UserIds : Retos(user)
    \/ \E user \in UserIds, target \in LeagueTargets : Cancelar(user, target)
    \/ \E user \in UserIds, target \in LeagueTargets : Clearlist(user, target)
    \/ \E id \in Visitors : Disconnect(id)
    \/ \E id \in Visitors : Forget(id)
    \/ \E id \in Visitors : Connect(id)

SpecLeague == InitLeague /\ [][NextLeague]_vars

\* ============================================================ properties
members(cat) == Range(cat.keys)
populated(cat) == cat.keys # <<>>
typesOf(id) == Range(Pokedex[id].types)
abilitiesOf(id) == Range(Pokedex[id].abilities)
resultSet == Range(results.list)
initialWorkingSet == Range(initialSet(catalog, tiers))
classifyErrors == {"moveLimit", "abilityLimit", "typeLimit", "broadcastAll", "unrecognized"}
answered == pc = "done" /\ reply.kind \in {"list", "noneFound", "ReferenceError"}

\* The legality engine accepts every move of keys for the species, asked in
\* the order of keys.
RECURSIVE learnsAll(_, _, _)
learnsAll(id, keys, lsetData) ==
    \/ keys = <<>>
    \/ /\ ~checkLearnset(Head(keys), id, lsetData)
       /\ learnsAll(id, Tail(keys), lsetData \cup {Head(keys)})

\* A species satisfies every populated category.
satisfiesAll(id) ==
    /\ populated(types) => members(types) \subseteq typesOf(id)
    /\ populated(tiers) => toLowerCase(Pokedex[id].tier) \in members(tiers)
    /\ populated(ability) => members(ability) \cap abilitiesOf(id) # {}
    /\ populated(colours) => toLowerCase(Pokedex[id].color) \in members(colours)
    /\ populated(moves) => learnsAll(id, moves.keys, {})
    /\ populated(gens) => Pokedex[id].gen \in members(gens)

\* C1: for every query that classifies without error (and populates at
\* least one category) the result set is exactly the set of species of the
\* initial working set that satisfy every populated category.
C1_ResultIsIntersection ==
    (answered /\ applied # <<>>) => resultSet = {id \in initialWorkingSet : satisfiesAll(id)}

\* C2: when two (different) types are requested, the type category keeps
\* exactly the species of the working set that have both requested types in
\* their two slots, in either order; nothing the later categories keep has
\* fewer than two types or lacks one of the two requested types.
C2_TwoTypesBoth ==
    (Len(applied) >= 1 /\ applied[1] = "type" /\ Cardinality(members(types)) = 2)
    => /\ Len(applied) = 1 =>
            resultSet = {id \in initialWorkingSet : members(types) \subseteq typesOf(id)}
       /\ \A id \in resultSet :
            /\ Len(Pokedex[id].types) = 2
            /\ members(types) \subseteq typesOf(id)

\* C2 witness: a two-type query answered with both slot orders (D is
\* Fire/Flying, E is Flying/Fire).
C2_Witness ==
    /\ pc = "done" /\ reply.kind = "list"
    /\ members(types) = {"Fire", "Flying"}
    /\ Range(reply.names) = {"D", "E"}

\* C3: a species is in the result only if the legality engine accepts every
\* requested move for it, and the move category keeps exactly the species of
\* its working set for which it does, whatever happened to the species
\* examined before.
C3_AllMovesLearnable ==
    /\ [](\A id \in resultSet :
            "move" \in Range(applied) =>
                /\ members(moves) \subseteq Pokedex[id].learnset
                /\ learnsAll(id, moves.keys, {}))
    /\ [][(pc = "eval" /\ count > 0 /\ pc' = "eval"
           /\ nextCategory(types, tiers, ability, colours, moves, gens) = "move")
          => results'.list = SelectSeq(workingSet(results, catalog, tiers),
                                       LAMBDA id : learnsAll(id, moves.keys, {}))]_vars

\* C3 witness: "tackle" on the example catalog: B cannot learn it and is
\* dropped, C, examined right after B, is kept.
C3_Witness ==
    /\ pc = "done" /\ applied = <<"move">>
    /\ catalog = CatalogExample
    /\ results.list = <<"a", "c">>

\* C4: no result has tier Illegal, and a CAP species is in the result only
\* if cap was a requested tier.
C4_NoIllegalCapOnRequest ==
    /\ \A id \in resultSet :
        /\ Pokedex[id].tier # "Illegal"
        /\ Pokedex[id].tier = "CAP" => "cap" \in members(tiers)
    /\ \A k \in DOMAIN reply.names :
        \A id \in DOMAIN Pokedex :
            Pokedex[id].species = reply.names[k] =>
                /\ Pokedex[id].tier # "Illegal"
                /\ Pokedex[id].tier = "CAP" => "cap" \in members(tiers)

\* C4 witness: cap requested against a catalog holding both a CAP and an
\* Illegal species; the CAP species F is listed.
C4_Witness ==
    /\ pc = "done" /\ reply.kind = "list"
    /\ "g" \in Range(catalog)
    /\ "cap" \in members(tiers)
    /\ \E k \in DOMAIN reply.names : reply.names[k] = "F"

\* C5: the 5th move token, the 2nd ability token and the 3rd type token
\* abort with their own limit error, and no limit error is replied while the
\* query stays within the limits.
C5_Limits ==
    /\ seen.move <= 5 /\ seen.ability <= 2 /\ seen.type <= 3
    /\ (seen.move = 5) <=> (pc = "done" /\ reply.kind = "moveLimit")
    /\ (seen.ability = 2) <=> (pc = "done" /\ reply.kind = "abilityLimit")
    /\ (seen.type = 3) <=> (pc = "done" /\ reply.kind = "typeLimit")

\* C5 witness: a fifth move token was read and rejected.
C5_Witness == seen.move = 5 /\ reply.kind = "moveLimit"

\* C6: when classification ends with the all flag set and no category
\* populated, the reply is the empty-query error and nothing is evaluated.
C6_AllAlone ==
    (/\ pc # "classify" /\ showAll
     /\ reply.kind \notin classifyErrors
     /\ ~populated(types) /\ ~populated(tiers) /\ ~populated(ability)
     /\ ~populated(colours) /\ ~populated(moves) /\ ~populated(gens))
    => /\ pc = "done"
       /\ reply.kind = "emptyAll"
       /\ ~results.def
       /\ applied = <<>>

\* C6 witness: "all" as the sole token.
C6_Witness == pc = "done" /\ reply.kind = "emptyAll" /\ ntok = 1 /\ showAll

\* C7: every token that belongs to no search category aborts the query with
\* the unrecognized-token reply naming it, and no result list is produced.
C7_UnmatchedRejected ==
    unmatched # {} =>
        /\ pc = "done"
        /\ reply.kind = "unrecognized"
        /\ reply.token \in {Trim(t) : t \in unmatched}
        /\ ~results.def

C10_ListsEachOnce ==
    (/\ pc = "done" /\ results.def /\ Len(results.list) >= 1
     /\ reply.kind \notin classifyErrors \cup {"notKnownMove"}
     /\ (showAll \/ Len(results.list) <= output))
    => /\ reply.kind = "list"
       /\ reply.hidden = 0
       /\ Len(reply.names) = Cardinality(resultSet)
       /\ Range(reply.names) = {Pokedex[id].species : id \in resultSet}


\* ------------------------------------------------------------ C11 .. C20
parseErrors == classifyErrors \cup {"emptyAll"}
lookupErrors == {"notKnownMove"}

\* C11: an invocation that ends in an input-parse or lookup error emits
\* exactly one reply, the error message, and no result list; nothing is
\* evaluated or sent after it.
C11_OneErrorReply ==
    /\ [](reply.kind \in parseErrors \cup lookupErrors =>
            /\ pc = "done"
            /\ sent = 1
            /\ reply.names = <<>>
            /\ reply.kind \in parseErrors => (~results.def /\ applied = <<>>))
    /\ [][reply.kind \in parseErrors \cup lookupErrors =>
            (reply' = reply /\ sent' = sent /\ results' = results)]_vars

\* C11 witness: a third type token rejected after valid tokens of two
\* categories.
C11_Witness ==
    /\ pc = "done" /\ reply.kind = "typeLimit" /\ sent = 1
    /\ populated(types) /\ populated(moves)

\* C16: all the lookups of one invocation are answered by one dataset, the
\* one in place when the invocation started, although the dataset can be
\* replaced between invocations.
C16_OneVersion ==
    /\ Cardinality(readFrom) <= 1
    /\ readFrom \subseteq {catalog}

\* C16 witness: an invocation that classified tokens and ran two evaluation
\* iterations, every lookup going to the same dataset.
C16_Witness ==
    /\ pc = "done" /\ Len(applied) >= 2 /\ results.def
    /\ readFrom = {catalog}

populatedCount ==
    Cardinality({k \in {"type", "tier", "ability", "colour", "move", "gen"} :
        CASE k = "type" -> populated(types) [] k = "tier" -> populated(tiers)
          [] k = "ability" -> populated(ability) [] k = "colour" -> populated(colours)
          [] k = "move" -> populated(moves) [] OTHER -> populated(gens)})

categoryOrder == <<"type", "tier", "ability", "colour", "move", "gen">>

isPopulated(k) ==
    CASE k = "type" -> populated(types) [] k = "tier" -> populated(tiers)
      [] k = "ability" -> populated(ability) [] k = "colour" -> populated(colours)
      [] k = "move" -> populated(moves) [] k = "gen" -> populated(gens)
      [] OTHER -> FALSE

expectedOrder == SelectSeq(categoryOrder, isPopulated)

\* C19: the evaluation applies the populated categories, each once, in the
\* order Type, Tier, Ability, Colour, Move, Generation, and never a category
\* without members.
C19_FixedOrder ==
    /\ Len(applied) <= Len(expectedOrder)
    /\ applied = SubSeq(expectedOrder, 1, Len(applied))
    /\ answered => applied = expectedOrder

\* C19 witness: three categories applied, three left out.
C19_Witness ==
    /\ answered
    /\ applied = <<"type", "tier", "move">>
    /\ ~populated(ability) /\ ~populated(colours) /\ ~populated(gens)

\* C20: every working set is a subset of the one before it, the first one a
\* subset of the catalog, and an empty working set stays empty.
C20_Narrowing ==
    /\ [](results.def => resultSet \subseteq Range(catalog))
    /\ [][(pc = "eval" /\ count > 0 /\ pc' = "eval") =>
            Range(results'.list) \subseteq Range(workingSet(results, catalog, tiers))]_vars
    /\ [][(results.def /\ results.list = <<>>) => results'.list = <<>>]_vars

\* C20 witness: "fire type, ou" on the example catalog narrows {A, B, C}
\* to {A, B} and then to {A}.
C20_Witness ==
    /\ pc = "done" /\ catalog = CatalogExample
    /\ applied = <<"type", "tier">>
    /\ results.list = <<"a">>


\* ---------------------------------------------------------- learn claims
\* The first listed move that is unknown or that the engine rejects for the
\* species (at = 0: there is none).
RECURSIVE firstStop(_, _, _, _)
firstStop(id, ms, k, ctx) ==
    IF k > Len(ms) THEN [at |-> 0, why |-> "none"]
    ELSE IF toId(ms[k]) \notin DOMAIN Movedex THEN [at |-> k, why |-> "unknown"]
    ELSE IF checkLearnset(Movedex[toId(ms[k])], id, ctx) THEN [at |-> k, why |-> "illegal"]
    ELSE firstStop(id, ms, k + 1, ctx \cup {Movedex[toId(ms[k])]})

\* C14: learn examines the moves in the order given and stops at the first
\* one that is unknown (move not found, naming it) or illegal (can't learn);
\* later moves are neither looked up nor given to the engine, and "can
\* learn" is replied only if every move exists and is legal.
C14_StopsAtFirst ==
    learn.pc # "idle" =>
        LET ms == IF learn.targets = <<>> THEN <<>> ELSE Tail(learn.targets)
            st == firstStop(toId(learn.targets[1]), ms, 1, {})
        IN
        /\ learn.looked = SubSeq(ms, 1, Len(learn.looked))
        /\ learn.checked = SubSeq(ms, 1, Len(learn.checked))
        /\ (learn.pc = "done" /\ learn.reply.kind \in {"moveNotFound", "cant", "can"}) =>
            /\ st.why = "none" =>
                (learn.reply.kind = "can" /\ learn.looked = ms /\ learn.checked = ms)
            /\ st.why = "unknown" =>
                /\ learn.reply.kind = "moveNotFound"
                /\ learn.reply.name = toId(ms[st.at])
                /\ learn.looked = SubSeq(ms, 1, st.at)
                /\ learn.checked = SubSeq(ms, 1, st.at - 1)
            /\ st.why = "illegal" =>
                /\ learn.reply.kind = "cant"
                /\ learn.looked = SubSeq(ms, 1, st.at)
                /\ learn.checked = SubSeq(ms, 1, st.at)

\* C14 witness: B cannot learn Tackle, the first of two listed moves; the
\* second is never looked up.
C14_Witness ==
    /\ learn.pc = "done" /\ learn.reply.kind = "cant"
    /\ learn.targets = <<"b", "tackle", "ember">>
    /\ learn.looked = <<"tackle">>

runLength(S, t) == Cardinality({x \in S : x.type = t /\ x.detail # 0})
shownEntries(buffer, t) ==
    Cardinality({j \in DOMAIN buffer : buffer[j].type = t /\ buffer[j].k \in {"first", "more"}})
ellipses(buffer, t) ==
    Cardinality({j \in DOMAIN buffer : buffer[j].type = t /\ buffer[j].k = "ellipsis"})

\* C15: each run of sources of one generation and method shows at most 3
\* entries, then one ellipsis when the run is longer; with learnall every
\* entry is shown and there is no ellipsis.
C15_ThreeThenEllipsis ==
    (learn.pc = "done" /\ learn.reply.kind = "can") =>
        \A t \in {"4E", "5D", "5S"} :
            LET n == runLength(learn.sources, t)
                shown == shownEntries(learn.reply.buffer, t)
                dots == ellipses(learn.reply.buffer, t)
            IN  IF learn.cmd = "learnall"
                THEN shown = n /\ dots = 0
                ELSE /\ shown = (IF n > 3 THEN 3 ELSE n)
                     /\ dots = (IF n > 3 THEN 1 ELSE 0)


\* ---------------------------------------------------------- query claims
rejected(o) == o.reply.kind \in parseErrors \cup lookupErrors

\* C13: the order of the dexsearch parameters does not matter: the query
\* with two of its tokens exchanged (and so, exchange after exchange, in any
\* order) is rejected iff the original is rejected, and when accepted it
\* yields the same result set.
C13_OrderIrrelevant ==
    pair.pc = "done" =>
        /\ rejected(pair.first) <=> rejected(pair.second)
        /\ ~rejected(pair.first) =>
            Range(pair.first.results.list) = Range(pair.second.results.list)

\* C13 witness: an accepted query with a non-empty result whose two moves
\* were read in the other order the second time.
C13_Witness ==
    /\ pair.pc = "done"
    /\ pair.first.reply.kind = "list"
    /\ Len(pair.first.locals.moves.keys) = 2
    /\ pair.first.locals.moves.keys # pair.second.locals.moves.keys
    /\ pair.second.reply.kind = "list"

\* The kinds in the order the if-chain tries them, and what it takes for a
\* token to be of a kind.
kindOrder == <<"move", "ability", "tier", "colour", "gen", "all", "type">>

matchesKind(tok, k) ==
    LET target == toLowerCase(Trim(tok)) IN
    CASE k = "move" -> toId(tok) \in DOMAIN Movedex
      [] k = "ability" -> toId(tok) \in DOMAIN Abilitydex
      [] k = "tier" -> target \in allTiers
      [] k = "colour" -> target \in allColours
      [] k = "gen" -> parseInt(target) \in 1..5
      [] k = "all" -> target = "all"
      [] OTHER -> hasTypeSuffix(target) /\ typeName(target) \in TypeChart

firstMatch(tok) ==
    LET hits == {n \in DOMAIN kindOrder : matchesKind(tok, kindOrder[n])} IN
    IF hits = {} THEN "none"
    ELSE kindOrder[CHOOSE n \in hits : \A m \in hits : n <= m]

\* The number of tokens the loop took without returning that went the
\* branch of kind k.
taken(o, k) ==
    LET n == IF o.locals.err = "none" THEN Len(o.locals.kinds)
             ELSE Len(o.locals.kinds) - 1
    IN  Cardinality({x \in 1..n : o.locals.kinds[x] = k})

classifiedOnce(toks, o) ==
    /\ \A n \in DOMAIN o.locals.kinds :
        /\ firstMatch(toks[n]) # "none" => o.locals.kinds[n] = firstMatch(toks[n])
        /\ firstMatch(toks[n]) = "none" => o.locals.kinds[n] \in {"skipped", "unrecognized"}
        /\ toId(toks[n]) \in DOMAIN Movedex => o.locals.kinds[n] = "move"
    /\ o.locals.moves.count = taken(o, "move")
    /\ o.locals.ability.count = taken(o, "ability")
    /\ o.locals.tiers.count = taken(o, "tier")
    /\ o.locals.colours.count = taken(o, "colour")
    /\ o.locals.gens.count = taken(o, "gen")
    /\ o.locals.types.count = taken(o, "type")
    /\ o.locals.showAll = (taken(o, "all") > 0)

\* C18: every token that matches some kind is counted in exactly one
\* category, the first of move, ability, tier, colour, generation, all, type
\* that matches it; a token naming an existing move is counted as a move and
\* as nothing else.
C18_FirstKindWins ==
    /\ pair.pc \in {"ran", "done"} => classifiedOnce(pair.tokens, pair.first)
    /\ pair.pc = "done" => classifiedOnce(pair.permuted, pair.second)

\* C18 witness: a query with a token that names a move and an ability; it
\* was counted as a move and the ability category stayed empty.
C18_Witness ==
    /\ pair.pc = "ran"
    /\ \E n \in DOMAIN pair.tokens : pair.tokens[n] = "mimic"
    /\ pair.first.locals.err = "none"
    /\ pair.first.locals.moves.count >= 1
    /\ pair.first.locals.ability.count = 0


\* ------------------------------------------------------------ C21 .. C25
\* The token list without its element at position j.
without(toks, j) == SubSeq(toks, 1, j - 1) \o SubSeq(toks, j + 1, Len(toks))

\* C21: a query in which a type, tier, colour, generation or move token is
\* given twice, no limit being exceeded, yields the same result set as the
\* query with that token given once.
C21_TwiceAsOnce ==
    (pair.pc = "ran" /\ ~rejected(pair.first)) =>
        \A i, j \in DOMAIN pair.tokens :
            (/\ i < j
             /\ pair.tokens[i] = pair.tokens[j]
             /\ pair.first.locals.kinds[j] \in {"type", "tier", "colour", "gen", "move"}) =>
                LET once == runQuery(without(pair.tokens, j), broadcasting, catalog)
                IN  /\ ~rejected(once)
                    /\ Range(once.results.list) = Range(pair.first.results.list)

\* C22: while the tokens are classified, the count of every category equals
\* the number of distinct members recorded in it.
C22_CountIsSize ==
    pc = "classify" =>
        /\ moves.count = Cardinality(members(moves))
        /\ ability.count = Cardinality(members(ability))
        /\ tiers.count = Cardinality(members(tiers))
        /\ colours.count = Cardinality(members(colours))
        /\ gens.count = Cardinality(members(gens))
        /\ types.count = Cardinality(members(types))

\* C23: in an invocation that ends with a parse error (a limit, an
\* unrecognized token, all with nothing else) the catalog is never
\* enumerated and the legality engine is never called: no iteration of the
\* evaluation loop has run and results was never assigned.
C23_ParseErrorBeforeEvaluation ==
    reply.kind \in parseErrors => (applied = <<>> /\ results = Undefined)

\* C23 witness: a third type token ended the invocation; a category was
\* populated, yet nothing was evaluated.
C23_Witness ==
    /\ pc = "done" /\ reply.kind = "typeLimit"
    /\ count > 0 /\ applied = <<>> /\ results = Undefined

\* C24: the result never holds the same species twice.
C24_NoSpeciesTwice ==
    results.def =>
        \A i, j \in DOMAIN results.list : results.list[i] = results.list[j] => i = j

\* C25: when broadcasting, a query whose all token the classifier reaches
\* is rejected with the cannot-broadcast reply and has no result; when not
\* broadcasting, all only sets the show-all flag and is not counted as a
\* populated category.
C25_AllAndBroadcast ==
    (pair.pc \in {"ran", "done"} /\ \E n \in DOMAIN pair.first.locals.kinds :
                                       pair.first.locals.kinds[n] = "all") =>
        LET o == pair.first
            st == o.locals
            cats == {st.moves, st.ability, st.tiers, st.colours, st.gens, st.types}
            names == {"move", "ability", "tier", "colour", "gen", "type"}
        IN  IF broadcasting
            THEN /\ o.reply.kind = "broadcastAll"
                 /\ o.reply.token = "all"
                 /\ o.results = Undefined
                 /\ ~st.showAll
                 /\ st.kinds[Len(st.kinds)] = "all"
            ELSE /\ o.reply.kind # "broadcastAll"
                 /\ st.err = "none" => st.showAll
                 /\ st.count = Cardinality({k \in names : taken(o, k) > 0})

\* C25 witness: a broadcast query with a type and then all.
C25_Witness ==
    /\ pair.pc = "ran" /\ broadcasting
    /\ pair.tokens = <<"fire type", "all">>
    /\ pair.first.reply.kind = "broadcastAll"


\* ------------------------------------------------------------------- C26
isPokemon(tok) == toId(tok) \in DOMAIN Pokedex
isType(tok) == tok \in {"fire", "water", "ground", "flying"}

\* The attacking type and the defending types the arguments name, tried as
\* (pokemon, type), (type, pokemon), (type, type[, type]).
resolved(targets) ==
    LET t0 == at(targets, 1)
        t1 == at(targets, 2)
        t2 == at(targets, 3)
    IN  IF isPokemon(t0) /\ isType(t1)
        THEN [ok |-> TRUE, attack |-> getType(t1).id, defend |-> Pokedex[toId(t0)].types]
        ELSE IF isType(t0) /\ isPokemon(t1)
        THEN [ok |-> TRUE, attack |-> getType(t0).id, defend |-> Pokedex[toId(t1)].types]
        ELSE IF isType(t0) /\ isType(t1)
        THEN [ok |-> TRUE, attack |-> getType(t0).id,
              defend |-> IF isType(t2) THEN <<getType(t1).id, getType(t2).id>>
                         ELSE <<getType(t1).id>>]
        ELSE [ok |-> FALSE, attack |-> "", defend |-> <<>>]

\* C26: the factor reported is 0 whenever the defender is immune to the
\* attacking type, whatever the exponent, and otherwise 2 raised to the
\* exponent of the type-effectiveness lookup; when the arguments resolve to
\* no combination the reply is an error and no factor is reported.
C26_FactorOrError ==
    effect.pc = "done" =>
        LET r == resolved(effect.targets)
            exponent == getEffectiveness(r.attack, r.defend)
            immune == \E k \in DOMAIN r.defend : damageTaken(r.attack, r.defend[k]) = "immune"
        IN  /\ ~r.ok => effect.reply.kind \in {"separated", "unrecognized"}
            /\ r.ok => effect.reply.kind \in {"box", "none"}
            /\ effect.reply.kind = "box" =>
                /\ effect.reply.type = r.attack
                /\ effect.reply.defender = r.defend
                /\ immune => effect.reply.factor.num = 0
                /\ ~immune =>
                    /\ exponent >= 0 => effect.reply.factor = [num |-> 2 ^ exponent, den |-> 1]
                    /\ exponent < 0 => effect.reply.factor = [num |-> 1, den |-> 2 ^ (0 - exponent)]

\* C26 witness: Ground against D (Fire / Flying): the exponent is +1, the
\* defender is immune, the factor reported is 0.
C26_Witness ==
    /\ effect.pc = "done" /\ effect.reply.kind = "box"
    /\ effect.reply.type = "Ground" /\ effect.reply.defender = <<"Fire", "Flying">>
    /\ getEffectiveness("Ground", <<"Fire", "Flying">>) = 1
    /\ effect.reply.factor.num = 0


\* ------------------------------------------------------------ C27 .. C30
\* The league state is only there while the league is modelled.
leagueRuns == league # Idle

noRepeat(list) == \A i, j \in DOMAIN list : list[i] = list[j] => i = j

\* list a holds entries of list b only, in the order they have in b.
keepsOrder(a, b) ==
    LET kept(x) == \E k \in DOMAIN a : a[k] = x IN a = SelectSeq(b, kept)

\* What a step may do to the challengers list of leader: nothing, append
\* the caller of a retarlider that was not listed while registration was
\* open, or drop entries.  A retarlider that reaches the list appends
\* exactly in that case, and the turn it reports is the caller's position.
listStep(leader) ==
    LET b == league.challengers[leader].list
        a == league'.challengers[leader].list
        r == league'.reply
        enters == indexOf(b, r.user) = 0 /\ ~league.noinscription[leader]
    IN  /\ \/ a = b
           \/ /\ a = Append(b, r.user)
              /\ r.cmd = "retarlider" /\ r.target = leader /\ r.kind = "sent"
              /\ enters
           \/ /\ Len(a) < Len(b)
              /\ keepsOrder(a, b)
        /\ (r.cmd = "retarlider" /\ r.target = leader
                /\ r.kind \in {"sent", "already", "closed"}) =>
            /\ a = (IF enters THEN Append(b, r.user) ELSE b)
            /\ r.kind = "sent" <=> enters
            /\ r.kind \in {"sent", "already"} => (r.turn \in DOMAIN a /\ a[r.turn] = r.user)

\* C27: no user id occurs more than once in a challengers list; retarlider
\* appends the caller at the tail only when the caller is not listed and
\* registration is open, the other entries keep their order, and the turn
\* reported is the caller's 1-based position.
C27_ListHasNoRepeats ==
    /\ [](leagueRuns => \A leader \in UserIds : noRepeat(league.challengers[leader].list))
    /\ [][leagueRuns => \A leader \in UserIds : listStep(leader)]_vars

\* C27 witness: a caller already listed second of three was told turn 2.
C27_Witness ==
    /\ leagueRuns
    /\ league.reply.cmd = "retarlider" /\ league.reply.kind = "already"
    /\ league.reply.turn = 2
    /\ Len(league.challengers["lider"].list) = 3

\* C28: when a connected Alto Mando member who is no gym leader has opened
\* the gym (and not closed registration), another user's retarlider with
\* that member's name puts the caller in the member's list.
C28_EliteIsChallenged ==
    leagueRuns =>
        \A member \in UserIds :
            (/\ indexOf(altomando, member) > 0 /\ indexOf(lideres, member) = 0
             /\ member \in league.connected
             /\ league.gymopen[member] /\ ~league.noinscription[member]
             /\ league.reply.cmd = "retarlider"
             /\ league.reply.target = member
             /\ league.reply.user # member) =>
                /\ league.reply.kind \in {"sent", "already"}
                /\ indexOf(league.challengers[member].list, league.reply.user) > 0

\* What a cancelarreto step does, r being its reply.
cancelStep ==
    LET r == league'.reply
        user == r.user
        before(id) == league.challengers[id].list
        after(id) == league'.challengers[id].list
    IN  r.cmd = "cancelarreto" =>
            /\ league'.gymopen = league.gymopen
            /\ league'.noinscription = league.noinscription
            /\ IF league.gymopen[user]
               THEN /\ \A id \in UserIds \ {user} : after(id) = before(id)
                    /\ after(user) =
                         IF indexOf(before(user), r.target) > 0 /\ unfound(r.target)
                         THEN splice(before(user), indexOf(before(user), r.target))
                         ELSE before(user)
               ELSE /\ \A id \in UserIds \ {r.target} : after(id) = before(id)
                    /\ r.target \in UserIds =>
                         after(r.target) =
                             IF found(r.target) /\ indexOf(before(r.target), user) > 0
                             THEN splice(before(r.target), indexOf(before(r.target), user))
                             ELSE before(r.target)

\* C29: a user whose gym is open removes a challenger from the own list
\* with cancelarreto exactly when that challenger is listed and unknown or
\* disconnected, otherwise the list is unchanged; a user whose gym is not
\* open removes only the own id from the target's list; nothing else
\* changes.
C29_CancelFrame == [][leagueRuns => cancelStep]_vars

\* C29 witness: a leader with an open gym removed a challenger who had
\* left, and another challenger stayed listed.
C29_Witness ==
    /\ leagueRuns
    /\ league.reply.cmd = "cancelarreto" /\ league.reply.kind = "removed"
    /\ league.gymopen[league.reply.user]
    /\ Len(league.challengers[league.reply.user].list) >= 1

\* C30: retos answers that nobody has challenged the user whenever the
\* user's list is empty, and lists the challengers, oldest first, only when
\* at least one is queued.
C30_EmptyListIsNobody ==
    (leagueRuns /\ league.reply.cmd = "retos") =>
        LET list == league.challengers[league.reply.user].list IN
        /\ list = <<>> => league.reply.kind = "nobody"
        /\ league.reply.kind = "list" =>
            /\ list # <<>>
            /\ league.reply.names = [k \in DOMAIN list |-> userName(list[k])]

====
